---- MODULE Spec2Model ----
(***************************************************************************)
(* Model of src/lib/retrieval/llamaindex_redis.py: the facade              *)
(* LlamaIndexRedisRetrieval (connect, index_documents, search, get_stats)  *)
(* and the command-line entry point main().                                *)
(*                                                                         *)
(* A behaviour is the life of one process.  The process is either a host   *)
(* that constructed a facade instance and calls its methods, or one run of *)
(* the command line, which constructs its own instance, executes one       *)
(* command and exits.                                                      *)
(*                                                                         *)
(* The external vector-index library and the embedding / language-model    *)
(* service are the environment: whether a call to them fails, and how      *)
(* similar each indexed node is to a query, are chosen nondeterministically.*)
(* A text is a sequence of tokens; the library splits a document's text    *)
(* into chunks of at most ChunkSize tokens, one node per chunk.            *)
(***************************************************************************)
EXTENDS Integers, Sequences, FiniteSets, TLC

VARIABLES
    vector_store,   \* self.vector_store of the instance of the current process
    index,          \* self.index of the instance of the current process
    proc,           \* what the process was started with: its environment, and for a
                    \* command-line run sys.argv and the text on standard input
    pc,             \* "ready": a host holds a live instance; "start": a command-line
                    \* process is about to run main; "exited": it has ended
    last,           \* the last call: its name, arguments, environment choices, result
    built,          \* history: some index_documents call of this instance returned True
    batch,          \* history: the records given to the last index_documents that returned True
    superseded      \* history: records of earlier successful batches that are not in `batch`

vars == <<vector_store, index, proc, pc, last, built, batch, superseded>>

----------------------------------------------------------------------------
(* Bounds of the model *)

MaxDocs == 2        \* longest list of records given to index_documents
MaxTopK == 2        \* largest explicit top_k (the default top_k is tried as well)
ChunkSize == 2      \* tokens per chunk of the library's text splitter

(* def search(self, query, top_k: int = 5) *)
DefaultTopK == 5

----------------------------------------------------------------------------
(* Python values *)

None == [t |-> "None"]

(* dict.get(key, default) *)
Get(d, key, default) == IF key \in DOMAIN d THEN d[key] ELSE default

(* os.getenv(name): None when the variable is not set *)
Getenv(env, name) == IF name \in DOMAIN env THEN [t |-> "str", s |-> env[name]] ELSE None

(* `not value` for None and str *)
Falsy(v) == v = None \/ (v.t = "str" /\ v.s = "")

----------------------------------------------------------------------------
(* Inputs *)

DocFull == [id |-> "a", content |-> <<"w1", "w2", "w3">>,
            source |-> "s1", section |-> "1", pageNumber |-> 1]
DocPartial == [source |-> "s2"]

PyDict(f) == [t |-> "dict", f |-> f]
PyStr == [t |-> "str"]
PyInt == [t |-> "int"]
PyList(items) == [t |-> "list", items |-> items]

Dicts == {PyDict(DocFull), PyDict(DocPartial)}
Elements == Dicts \cup {PyStr}

SeqsUpTo(S, n) == UNION {[1..k -> S] : k \in 0..n}

(* what a caller may pass as `documents` *)
DocumentInputs == {PyList(s) : s \in SeqsUpTo(Elements, MaxDocs)} \cup {PyInt}

Queries == {"q1", "q2"}
(* top_k: search accepts any int and hands it to the library unvalidated, so a
   negative value and zero are tried as well as the counts 1..MaxTopK; a call
   without top_k uses the default *)
TopKs == {-1, 0} \cup (1..MaxTopK) \cup {DefaultTopK}

(* similarity of a node to the query, as the embedding service decides it *)
Scores == {1, 2}

Environments == {[PATH |-> "/bin"],
                 [PATH |-> "/bin", OPENAI_API_KEY |-> ""],
                 [PATH |-> "/bin", OPENAI_API_KEY |-> "sk-test"]}

----------------------------------------------------------------------------
(* The external library, as the facade uses it *)

(* The library's text splitter: a text becomes chunks of at most ChunkSize
   tokens; an empty text is a single empty chunk. *)
RECURSIVE SplitText(_)
SplitText(text) ==
    IF Len(text) <= ChunkSize THEN <<text>>
    ELSE <<SubSeq(text, 1, ChunkSize)>> \o SplitText(SubSeq(text, ChunkSize + 1, Len(text)))

(* The nodes of one Document: one per chunk, each carrying the document's metadata. *)
NodesOf(doc) ==
    LET chunks == SplitText(doc.text)
    IN  [i \in 1..Len(chunks) |-> [text |-> chunks[i], metadata |-> doc.metadata]]

RECURSIVE FlatNodes(_)
FlatNodes(docs) ==
    IF docs = <<>> THEN <<>> ELSE NodesOf(Head(docs)) \o FlatNodes(Tail(docs))

(* VectorStoreIndex.from_documents(llama_docs, embed_model=...), when it succeeds:
   a new index over the nodes of these documents and nothing else. *)
from_documents(llama_docs) == [t |-> "VectorStoreIndex", nodes |-> FlatNodes(llama_docs)]

NumNodes(ix) == IF ix = None THEN 0 ELSE Len(ix.nodes)

(* What the embedding service may answer for one query: a similarity for every
   node of the index.  No node is scored when the language-model call fails. *)
Similarities(ix, llm_ok) ==
    IF llm_ok THEN [1..NumNodes(ix) -> Scores] ELSE {[p \in 1..NumNodes(ix) |-> 1]}

(* How many nodes the retriever may keep when asked for top_k.  A positive top_k
   is the limit.  The facade does not reject zero or a negative top_k, and what
   the library then does is not fixed by anything in this program: it may keep no
   node, every node, or any number in between. *)
Kept(ix, top_k) == IF top_k >= 1 THEN {top_k} ELSE 0..NumNodes(ix)

(* Mutation of as_query_engine: the caller's top_k is dropped and the default used. *)
as_query_engine_default(ix, top_k) == [index |-> ix, similarity_top_k |-> DefaultTopK]

(* self.index.as_query_engine(similarity_top_k=top_k, llm=self.llm) *)
as_query_engine(ix, top_k) == [index |-> ix, similarity_top_k |-> top_k]

(* The position of S most similar to the query; equal similarity in index order. *)
Best(S, sim) ==
    CHOOSE p \in S : \A q \in S : sim[p] > sim[q] \/ (sim[p] = sim[q] /\ p <= q)

(* The retriever: the k most similar nodes among the positions S, best first,
   each with its similarity as score. *)
RECURSIVE Retrieve(_, _, _, _)
Retrieve(nodes, S, sim, k) ==
    IF k = 0 \/ S = {} THEN <<>>
    ELSE LET best == Best(S, sim)
         IN  <<[node |-> nodes[best], score |-> sim[best]]>>
                 \o Retrieve(nodes, S \ {best}, sim, k - 1)

(* query_engine.query(query): raises when the language-model call fails, else a
   response whose source_nodes are the similarity_top_k most similar nodes; with
   a similarity_top_k that is not a positive count, the `kept` most similar. *)
query(query_engine, q, sim, kept, llm_ok) ==
    IF query_engine.index = None THEN [exc |-> "AttributeError", source_nodes |-> <<>>]
    ELSE IF ~llm_ok THEN [exc |-> "APIConnectionError", source_nodes |-> <<>>]
    ELSE [exc |-> "none",
          source_nodes |-> Retrieve(query_engine.index.nodes,
                                    DOMAIN query_engine.index.nodes,
                                    sim,
                                    IF query_engine.similarity_top_k >= 1
                                    THEN query_engine.similarity_top_k ELSE kept)]

----------------------------------------------------------------------------
(* The facade *)

RedisUrl == "redis://localhost:6379"
IndexName == "rfp_context"

(* __init__: raises ValueError when OPENAI_API_KEY is unset or empty *)
New(env) ==
    IF Falsy(Getenv(env, "OPENAI_API_KEY"))
    THEN [exc |-> "ValueError", self |-> None]
    ELSE [exc |-> "none",
          self |-> [redis_url |-> RedisUrl, index_name |-> IndexName,
                    vector_store |-> None, index |-> None]]

(* Mutation of connect: a store handle is installed. *)
connect_redis(self) ==
    [self |-> [self EXCEPT !.vector_store = [t |-> "RedisVectorStore"]],
     ret  |-> TRUE,
     out  |-> << <<"Connected to Redis">> >>,
     exc  |-> "none"]

(* Mutation of connect: connecting starts from an empty facade again. *)
connect_reset(self) ==
    [self |-> [self EXCEPT !.vector_store = None, !.index = None],
     ret  |-> TRUE,
     out  |-> << <<"Using fallback mode - LlamaIndex with local storage">> >>,
     exc  |-> "none"]

(* connect *)
connect(self) ==
    [self |-> [self EXCEPT !.vector_store = None],
     ret  |-> TRUE,
     out  |-> << <<"Using fallback mode - LlamaIndex with local storage">> >>,
     exc  |-> "none"]

(* Mutation of to_llama_doc: doc['content'] instead of doc.get('content', ''). *)
to_llama_doc_strict(doc) ==
    IF doc.t # "dict" THEN [exc |-> "AttributeError", doc |-> None]
    ELSE IF "content" \notin DOMAIN doc.f THEN [exc |-> "KeyError", doc |-> None]
    ELSE [exc |-> "none",
          doc |-> [text |-> doc.f.content,
                   metadata |-> [id         |-> Get(doc.f, "id", ""),
                                 source     |-> Get(doc.f, "source", ""),
                                 section    |-> Get(doc.f, "section", ""),
                                 pageNumber |-> Get(doc.f, "pageNumber", 0)]]]

(* Document(text=doc.get('content', ''), metadata={...}) for one input record;
   a value with no .get raises AttributeError. *)
to_llama_doc(doc) ==
    IF doc.t # "dict" THEN [exc |-> "AttributeError", doc |-> None]
    ELSE [exc |-> "none",
          doc |-> [text |-> Get(doc.f, "content", <<>>),
                   metadata |-> [id         |-> Get(doc.f, "id", ""),
                                 source     |-> Get(doc.f, "source", ""),
                                 section    |-> Get(doc.f, "section", ""),
                                 pageNumber |-> Get(doc.f, "pageNumber", 0)]]]

(* the loop `for doc in documents`: the first exception ends it *)
llama_docs_of(documents) ==
    IF documents.t # "list" THEN [exc |-> "TypeError", docs |-> <<>>]
    ELSE LET conv == [i \in DOMAIN documents.items |-> to_llama_doc(documents.items[i])]
             bad  == {i \in DOMAIN conv : conv[i].exc # "none"}
         IN  IF bad # {}
             THEN [exc |-> conv[CHOOSE i \in bad : \A j \in bad : i <= j].exc, docs |-> <<>>]
             ELSE [exc |-> "none", docs |-> [i \in DOMAIN conv |-> conv[i].doc]]

(* Mutation of index_failed: a failed call drops the index. *)
index_failed_reset(self, e) ==
    [self |-> [self EXCEPT !.index = None], ret |-> FALSE,
     out |-> << <<"Error indexing documents: ", e>> >>, exc |-> "none"]

(* except Exception as e, in index_documents *)
index_failed(self, e) ==
    [self |-> self, ret |-> FALSE,
     out |-> << <<"Error indexing documents: ", e>> >>, exc |-> "none"]

(* Mutation of index_documents: the index is assigned before the build is known
   to have succeeded, so a failed build leaves its documents behind. *)
index_documents_partial(self, documents, build_ok) ==
    LET conv == llama_docs_of(documents)
    IN  IF conv.exc # "none" THEN index_failed(self, conv.exc)
        ELSE IF ~build_ok
        THEN [self |-> [self EXCEPT !.index = from_documents(conv.docs)], ret |-> FALSE,
              out |-> << <<"Error indexing documents: ", "APIConnectionError">> >>,
              exc |-> "none"]
        ELSE [self |-> [self EXCEPT !.index = from_documents(conv.docs)],
              ret |-> TRUE, out |-> <<>>, exc |-> "none"]

(* Mutation of index_documents: the new documents are added to the index held. *)
index_documents_merge(self, documents, build_ok) ==
    LET conv == llama_docs_of(documents)
        old  == IF self.index = None THEN <<>> ELSE self.index.nodes
    IN  IF conv.exc # "none" THEN index_failed(self, conv.exc)
        ELSE IF ~build_ok THEN index_failed(self, "APIConnectionError")
        ELSE [self |-> [self EXCEPT !.index =
                            [t |-> "VectorStoreIndex",
                             nodes |-> old \o from_documents(conv.docs).nodes]],
              ret |-> TRUE, out |-> <<>>, exc |-> "none"]

(* index_documents *)
index_documents(self, documents, build_ok) ==
    LET conv == llama_docs_of(documents)
    IN  IF conv.exc # "none" THEN index_failed(self, conv.exc)
        ELSE IF ~build_ok THEN index_failed(self, "APIConnectionError")
        ELSE [self |-> [self EXCEPT !.index = from_documents(conv.docs)],
              ret |-> TRUE, out |-> <<>>, exc |-> "none"]

(* Mutation of result_of: the id is read from the wrong metadata key. *)
result_of_source_id(nws) ==
    [id       |-> Get(nws.node.metadata, "source", ""),
     content  |-> nws.node.text,
     score    |-> nws.score,
     metadata |-> nws.node.metadata]

(* one entry of `results` *)
result_of(nws) ==
    [id       |-> Get(nws.node.metadata, "id", ""),
     content  |-> nws.node.text,
     score    |-> nws.score,
     metadata |-> nws.node.metadata]

(* the loop `for node in response.source_nodes` *)
RECURSIVE results_of(_)
results_of(source_nodes) ==
    IF source_nodes = <<>> THEN <<>>
    ELSE <<result_of(Head(source_nodes))>> \o results_of(Tail(source_nodes))

(* search *)
search(self, q, top_k, sim, kept, llm_ok) ==
    IF self.index = None
    THEN [self |-> self, ret |-> <<>>, out |-> <<>>, exc |-> "none"]
    ELSE LET response == query(as_query_engine(self.index, top_k), q, sim, kept, llm_ok)
         IN  IF response.exc # "none"
             THEN [self |-> self, ret |-> <<>>,
                   out |-> << <<"Error searching: ", response.exc>> >>, exc |-> "none"]
             ELSE [self |-> self, ret |-> results_of(response.source_nodes),
                   out |-> <<>>, exc |-> "none"]

(* get_stats *)
get_stats(self) ==
    [self |-> self,
     ret  |-> IF self.vector_store = None
              THEN [error |-> "Not connected"]
              ELSE [status |-> "connected", index_name |-> self.index_name,
                    redis_url |-> self.redis_url],
     out  |-> <<>>, exc |-> "none"]

----------------------------------------------------------------------------
(* The command line *)

ProgName == "llamaindex_redis.py"

Argvs == {<<ProgName>>,
          <<ProgName, "connect">>,
          <<ProgName, "index">>,
          <<ProgName, "search">>,
          <<ProgName, "search", "q1">>,
          <<ProgName, "stats">>,
          <<ProgName, "frobnicate">>,
          <<ProgName, "Connect", "q1">>}

(* standard input: a JSON text, or a text that is not JSON *)
Stdins == {[t |-> "json", value |-> d] : d \in DocumentInputs} \cup {[t |-> "malformed"]}

(* json.loads(text): raises JSONDecodeError on a text that is not JSON *)
json_loads(text) ==
    IF text.t = "json" THEN [exc |-> "none", value |-> text.value]
    ELSE [exc |-> "JSONDecodeError", value |-> None]

(* print(json.dumps(value)) as one line of output *)
json_dumps(value) == <<"json", value>>

(* how a process ends: its standard output, exit status, and the exception that
   escaped main ("none" when none did) *)
Exit(stdout, exit_code, traceback) ==
    [stdout |-> stdout, exit_code |-> exit_code, traceback |-> traceback]

Usage == << <<"Usage: python llamaindex_redis.py <command> [args...]">>,
            <<"Commands: connect, index, search <query>, stats">> >>

(* Mutation of unknown_command: an unknown command is an error exit. *)
unknown_command_exit1(command) == Exit(<< <<"Unknown command: ", command>> >>, 1, "none")

(* else: print(f"Unknown command: {command}") *)
unknown_command(command) == Exit(<< <<"Unknown command: ", command>> >>, 0, "none")

(* the if/elif chain of main, on the constructed instance *)
dispatch(retrieval, sys_argv, stdin, lib) ==
    LET command == sys_argv[2]
    IN  IF command = "connect" THEN
            LET r == connect(retrieval)
            IN  Exit(r.out \o <<json_dumps([success |-> r.ret])>>, 0, "none")
        ELSE IF command = "index" THEN
            LET parsed == json_loads(stdin)
            IN  IF parsed.exc # "none" THEN Exit(<<>>, 1, parsed.exc)
                ELSE LET r == index_documents(retrieval, parsed.value, lib.build_ok)
                     IN  Exit(r.out \o <<json_dumps([success |-> r.ret])>>, 0, "none")
        ELSE IF command = "search" THEN
            IF Len(sys_argv) < 3 THEN Exit(<< <<"Usage: search <query>">> >>, 1, "none")
            ELSE LET r == search(retrieval, sys_argv[3], DefaultTopK, lib.sim, lib.kept, lib.llm_ok)
                 IN  Exit(r.out \o <<json_dumps([results |-> r.ret])>>, 0, "none")
        ELSE IF command = "stats" THEN
            LET r == get_stats(retrieval)
            IN  Exit(r.out \o <<json_dumps(r.ret)>>, 0, "none")
        ELSE unknown_command(command)

(* main *)
main(env, sys_argv, stdin, lib) ==
    IF Len(sys_argv) < 2 THEN Exit(Usage, 1, "none")
    ELSE LET made == New(env)
         IN  IF made.exc # "none" THEN Exit(<<>>, 1, made.exc)
             ELSE dispatch(made.self, sys_argv, stdin, lib)

----------------------------------------------------------------------------
(* State machine *)

Self == [redis_url |-> RedisUrl, index_name |-> IndexName,
         vector_store |-> vector_store, index |-> index]

Range(s) == {s[i] : i \in DOMAIN s}

(* a host process, after it constructed its instance *)
HostInit ==
    \E env \in Environments :
        /\ New(env).exc = "none"
        /\ vector_store = New(env).self.vector_store
        /\ index = New(env).self.index
        /\ proc = [kind |-> "host", env |-> env]
        /\ pc = "ready"
        /\ last = [op |-> "__init__", exc |-> "none"]

(* a command-line process, before main runs: no instance exists yet *)
CliInit ==
    \E env \in Environments, sys_argv \in Argvs, stdin \in Stdins :
        /\ vector_store = None
        /\ index = None
        /\ proc = [kind |-> "cli", env |-> env, sys_argv |-> sys_argv, stdin |-> stdin]
        /\ pc = "start"
        /\ last = [op |-> "none"]

Init ==
    /\ HostInit \/ CliInit
    /\ built = FALSE
    /\ batch = <<>>
    /\ superseded = {}

Connect ==
    /\ pc = "ready"
    /\ \E r \in {connect(Self)} :
           /\ vector_store' = r.self.vector_store
           /\ index' = r.self.index
           /\ last' = [op |-> "connect", ret |-> r.ret, out |-> r.out, exc |-> r.exc]
    /\ UNCHANGED <<proc, pc, built, batch, superseded>>

IndexDocuments ==
    /\ pc = "ready"
    /\ \E documents \in DocumentInputs, build_ok \in BOOLEAN :
        \E r \in {index_documents(Self, documents, build_ok)} :
            /\ vector_store' = r.self.vector_store
            /\ index' = r.self.index
            /\ last' = [op |-> "index_documents", documents |-> documents,
                        build_ok |-> build_ok,
                        ret |-> r.ret, out |-> r.out, exc |-> r.exc]
            /\ IF r.ret
               THEN /\ built' = TRUE
                    /\ batch' = documents.items
                    /\ superseded' = (superseded \cup Range(batch)) \ Range(documents.items)
               ELSE UNCHANGED <<built, batch, superseded>>
    /\ UNCHANGED <<proc, pc>>

Search ==
    /\ pc = "ready"
    /\ \E q \in Queries, top_k \in TopKs, llm_ok \in BOOLEAN :
       \E sim \in Similarities(index, llm_ok), kept \in Kept(index, top_k) :
        \E r \in {search(Self, q, top_k, sim, kept, llm_ok)} :
            /\ vector_store' = r.self.vector_store
            /\ index' = r.self.index
            /\ last' = [op |-> "search", query |-> q, top_k |-> top_k, llm_ok |-> llm_ok,
                        ret |-> r.ret, out |-> r.out, exc |-> r.exc]
    /\ UNCHANGED <<proc, pc, built, batch, superseded>>

GetStats ==
    /\ pc = "ready"
    /\ \E r \in {get_stats(Self)} :
           /\ vector_store' = r.self.vector_store
           /\ index' = r.self.index
           /\ last' = [op |-> "get_stats", ret |-> r.ret, out |-> r.out, exc |-> r.exc]
    /\ UNCHANGED <<proc, pc, built, batch, superseded>>

(* main, from start to exit; its instance is gone when the process ends *)
Main ==
    /\ pc = "start"
    /\ \E build_ok \in BOOLEAN, llm_ok \in BOOLEAN :
        LET lib == [build_ok |-> build_ok, llm_ok |-> llm_ok, sim |-> <<>>, kept |-> DefaultTopK]
        IN  last' = [op |-> "main", ret |-> main(proc.env, proc.sys_argv, proc.stdin, lib)]
    /\ pc' = "exited"
    /\ UNCHANGED <<vector_store, index, proc, built, batch, superseded>>

Next == Connect \/ IndexDocuments \/ Search \/ GetStats \/ Main

Spec == Init /\ [][Next]_vars

----------------------------------------------------------------------------
(* Vocabulary of the properties *)

(* The normalized Document shape of one input record: a missing field is the
   empty string (the empty text), a missing pageNumber is zero. *)
ExpectedText(rec) == IF "content" \in DOMAIN rec THEN rec.content ELSE <<>>

ExpectedMetadata(rec) ==
    [id         |-> IF "id" \in DOMAIN rec THEN rec.id ELSE "",
     source     |-> IF "source" \in DOMAIN rec THEN rec.source ELSE "",
     section    |-> IF "section" \in DOMAIN rec THEN rec.section ELSE "",
     pageNumber |-> IF "pageNumber" \in DOMAIN rec THEN rec.pageNumber ELSE 0]

ExpectedDocs(items) ==
    [j \in DOMAIN items |-> [text     |-> ExpectedText(items[j].f),
                             metadata |-> ExpectedMetadata(items[j].f)]]

(* c is a run of consecutive tokens of text *)
IsChunkOf(c, text) ==
    \E a \in 1..(Len(text) + 1) : \E b \in 0..Len(text) : SubSeq(text, a, b) = c

(* search result r was made from input record d *)
FromRecord(r, d) ==
    /\ r.metadata = ExpectedMetadata(d.f)
    /\ IsChunkOf(r.content, ExpectedText(d.f))

(* the number of chunks the text of all records of a batch is split into *)
RECURSIVE ChunkCount(_)
ChunkCount(items) ==
    IF items = <<>> THEN 0
    ELSE LET n == Len(ExpectedText(Head(items).f))
         IN  (IF n = 0 THEN 1 ELSE (n + ChunkSize - 1) \div ChunkSize) + ChunkCount(Tail(items))

KeyPresent == ~Falsy(Getenv(proc.env, "OPENAI_API_KEY"))

KnownCommands == {"connect", "index", "search", "stats"}

FacadeOps == {"connect", "index_documents", "search", "get_stats"}

(* the command-line process ended after being given a command that is not known *)
RanUnknownCommand ==
    /\ pc = "exited"
    /\ Len(proc.sys_argv) >= 2
    /\ proc.sys_argv[2] \notin KnownCommands

ListOfDicts(documents) ==
    /\ documents.t = "list"
    /\ \A j \in DOMAIN documents.items : documents.items[j].t = "dict"

----------------------------------------------------------------------------
(* Properties *)

(* C1: as long as no index_documents call of the instance has returned True,
   whatever calls came before, search returns the empty list for every query
   and every top_k, and raises nothing. *)
C1_SearchBeforeIndexIsEmpty ==
    (pc = "ready" /\ ~built /\ last.op = "search")
        => (last.ret = <<>> /\ last.exc = "none")

C1_Witness ==
    /\ pc = "ready" /\ ~built /\ last.op = "search"
    /\ last.top_k = DefaultTopK /\ last.llm_ok

(* C2: once a later successful index_documents has replaced an earlier index,
   every search result comes from a record of the latest batch, and none from a
   record that was only in an earlier batch. *)
C2_IndexIsReplacedNotMerged ==
    (pc = "ready" /\ last.op = "search" /\ superseded # {})
        => \A i \in DOMAIN last.ret :
              /\ \E j \in DOMAIN batch : FromRecord(last.ret[i], batch[j])
              /\ ~ \E d \in superseded : FromRecord(last.ret[i], d)

C2_Witness ==
    /\ pc = "ready" /\ last.op = "search" /\ superseded # {}
    /\ last.ret # <<>>

(* C3: with the API key present, no failure escapes a facade operation or a
   command-line run: facade operations raise nothing, and the command-line
   process ends without an uncaught exception, whatever standard input holds. *)
C3_NoErrorEscapes ==
    /\ (pc = "ready" /\ last.op \in FacadeOps) => last.exc = "none"
    /\ (pc = "exited" /\ KeyPresent) => last.ret.traceback = "none"

(* C4, as stated: a command that is not known prints `Unknown command: <name>`
   and exits with status 0, whether or not the API key is set. *)
C4_UnknownCommandAlwaysExits0 ==
    RanUnknownCommand
        => last.ret = Exit(<< <<"Unknown command: ", proc.sys_argv[2]>> >>, 0, "none")

(* C4, amended: with the API key set, a command that is not known prints
   `Unknown command: <name>` and exits with status 0; without the key the
   constructor's ValueError ends the process before anything is printed. *)
C4_UnknownCommandWithKey ==
    RanUnknownCommand
        => IF KeyPresent
           THEN last.ret = Exit(<< <<"Unknown command: ", proc.sys_argv[2]>> >>, 0, "none")
           ELSE last.ret = Exit(<<>>, 1, "ValueError")

C4_Witness ==
    /\ RanUnknownCommand /\ KeyPresent
    /\ last.ret.exit_code = 0

(* C5: the vector store handle is absent in every state, and get_stats returns
   exactly {"error": "Not connected"}. *)
C5_NeverConnected ==
    /\ vector_store = None
    /\ (pc = "ready" /\ last.op = "get_stats") => last.ret = [error |-> "Not connected"]

C5_Witness ==
    /\ pc = "ready" /\ last.op = "get_stats" /\ built

(* C6: the id of every search result is the id of a record of the batch the
   index was built from, and its metadata is that record's normalized metadata. *)
C6_ResultsMatchIndexedRecords ==
    (pc = "ready" /\ last.op = "search")
        => \A i \in DOMAIN last.ret :
              \E j \in DOMAIN batch :
                  /\ last.ret[i].id = ExpectedMetadata(batch[j].f).id
                  /\ last.ret[i].metadata = ExpectedMetadata(batch[j].f)

C6_Witness ==
    /\ pc = "ready" /\ last.op = "search" /\ Len(last.ret) >= 2
    /\ \E i \in DOMAIN last.ret : last.ret[i].id = ""
    /\ \E i \in DOMAIN last.ret : last.ret[i].id = "a"

(* C7, as stated, for an index built from N >= 1 records: a search with
   top_k = k that succeeds returns at most k and at most N results, a search
   that fails returns none; the command-line search prints at most DefaultTopK
   results. *)
C7_AtMostKAndAtMostN ==
    /\ (pc = "ready" /\ built /\ batch # <<>> /\ last.op = "search")
          => IF last.out # <<>>
             THEN last.ret = <<>>
             ELSE Len(last.ret) <= last.top_k /\ Len(last.ret) <= Len(batch)
    /\ (pc = "exited" /\ KeyPresent /\ Len(proc.sys_argv) >= 3 /\ proc.sys_argv[2] = "search")
          => Len(last.ret.stdout[Len(last.ret.stdout)][2].results) <= DefaultTopK

(* C7, amended: a search returns at most as many results as the text of the
   indexed records has chunks (each chunk is a node, so a long record can be
   returned more than once), and at most top_k results when top_k is 1 or more
   (zero and negative top_k reach the library unvalidated and do not bound the
   result); a failed search returns none; the command-line search prints at
   most DefaultTopK results. *)
C7_AtMostKAndAtMostChunks ==
    /\ (pc = "ready" /\ last.op = "search")
          => /\ last.top_k >= 1 => Len(last.ret) <= last.top_k
             /\ Len(last.ret) <= ChunkCount(batch)
             /\ (last.out # <<>> => last.ret = <<>>)
    /\ (pc = "exited" /\ KeyPresent /\ Len(proc.sys_argv) >= 3 /\ proc.sys_argv[2] = "search")
          => /\ last.ret.exit_code = 0
             /\ Len(last.ret.stdout[Len(last.ret.stdout)][2].results) <= DefaultTopK

C7_Witness ==
    /\ pc = "ready" /\ last.op = "search"
    /\ Len(last.ret) = last.top_k
    /\ Len(last.ret) > Len(batch)

(* C8: index_documents raises nothing; given a list of records, some of them
   without content, id, source, section or pageNumber, and a library build that
   succeeds, it returns True and the index holds exactly the normalized
   documents, one per record. *)
C8_MissingFieldsAreDefaulted ==
    (pc = "ready" /\ last.op = "index_documents")
        => /\ last.exc = "none"
           /\ (ListOfDicts(last.documents) /\ last.build_ok)
                 => /\ last.ret = TRUE
                    /\ index # None
                    /\ index.nodes = FlatNodes(ExpectedDocs(last.documents.items))
                    /\ Len(ExpectedDocs(last.documents.items)) = Len(last.documents.items)

C8_Witness ==
    /\ pc = "ready" /\ last.op = "index_documents" /\ last.ret = TRUE
    /\ \E j \in DOMAIN last.documents.items :
          "content" \notin DOMAIN last.documents.items[j].f

(* C9: every connect call returns True and leaves the index and the vector
   store handle as they were. *)
C9_ConnectHasNoEffect ==
    [][(pc = "ready" /\ last'.op = "connect")
          => (last'.ret = TRUE /\ index' = index /\ vector_store' = vector_store)]_vars

C9_Witness ==
    /\ pc = "ready" /\ last.op = "connect" /\ built /\ index # None

(* C10: once an index_documents call has returned True the instance holds an
   index in every later state, and a call that returns False leaves the index
   it found. *)
C10_IndexIsNeverLost ==
    [][pc = "ready"
          => /\ built => built'
             /\ built' => index' # None
             /\ (last'.op = "index_documents" /\ last'.ret = FALSE) => index' = index]_vars

C10_Witness ==
    /\ pc = "ready" /\ built /\ index # None
    /\ last.op = "index_documents" /\ last.ret = FALSE

====
